---- MODULE Spec2Model ----
(***************************************************************************)
(* Model of the client-side data synchronisation layer of the habit        *)
(* tracker (src/src/lib/realtime.js): RealtimeManager, OptimisticUpdates.  *)
(*                                                                         *)
(* Strings that the code concatenates are sequences of tokens, so that     *)
(* `${table}-${filter || 'all'}` is a real concatenation.  JavaScript Sets *)
(* are sequences without duplicates in insertion order, Maps are functions *)
(* whose DOMAIN is the set of keys present (the pending-update Map, whose  *)
(* iteration order matters, is a sequence of entries).                     *)
(***************************************************************************)
EXTENDS Integers, Sequences, FiniteSets, TLC

\* ------------------------------------------------------------------ bounds
MaxSubscribes    == 3   \* RealtimeManager.subscribe calls in one behaviour
MaxFanSubscribes == 2   \* the same, in behaviours that also deliver events
MaxEvents        == 2   \* change events the transport emits in one behaviour

MaxLoads         == 2   \* loadData calls that fetch, in one behaviour
MaxAdds          == 3   \* addHabit / addTodo calls of the database layer

\* ------------------------------------------------------------- input sets
Null == <<"NULL">>      \* the JavaScript value null (no string has this token)

UserFilter == <<"user_id=eq.", "u1">>      \* `user_id=eq.${userId}`

Targets ==
  { [table |-> <<"habits">>, filter |-> UserFilter],
    [table |-> <<"todos">>,  filter |-> Null] }

CB == {"a", "b"}        \* identities of callback functions

UserId == <<"u1">>

\* The rows the user has on the server at the start, as loadData gets them.
\* part_000:721-726  tasks get a name; realtime.js:483, 558, 640 the columns
UserRows ==
    [habits |-> << [id |-> <<"h1">>, name |-> <<"A">>],
                   [id |-> <<"h2">>, name |-> <<"B">>] >>,
     tasks |-> << [id |-> <<"t1">>, title |-> <<"T">>, name |-> <<"T">>,
                   completed |-> FALSE, user_id |-> UserId],
                  [id |-> <<"t2">>, title |-> <<"U">>, name |-> <<"U">>,
                   completed |-> TRUE, user_id |-> UserId] >>,
     habitLogs |-> << [habit_id |-> <<"h1">>, log_date |-> <<"d1">>,
                       habits |-> [user_id |-> UserId]],
                      [habit_id |-> <<"h2">>, log_date |-> <<"d1">>,
                       habits |-> [user_id |-> UserId]] >>]

\* --------------------------------------------------------------- helpers
Range(s) == { s[i] : i \in 1..Len(s) }

IndexOf(s, x) == IF x \in Range(s) THEN CHOOSE i \in 1..Len(s) : s[i] = x ELSE 0

RemoveAt(s, p) == SubSeq(s, 1, p - 1) \o SubSeq(s, p + 1, Len(s))

\* Map.delete(k) / Map.set(k, v) on a function whose DOMAIN is the key set.
MapDelete(m, k) == [x \in (DOMAIN m) \ {k} |-> m[x]]

MapSet(m, k, v) == [x \in (DOMAIN m) \cup {k} |-> IF x = k THEN v ELSE m[x]]

EmptyMap == [x \in {} |-> 0]

\* ------------------------------------------------------- RealtimeManager
VARIABLES
  callbacks,      \* this.callbacks: subscriptionKey -> id of its Set object
  sets,           \* the Set objects ever created: id -> callbacks, insertion order
  subscriptions,  \* this.subscriptions: subscriptionKey -> channel id
  channels,       \* upstream channels ever created, by id
  subs,           \* the subscribe calls made, each with its unsubscribe closure
  detached,       \* <<key, cb>> whose latest registry operation is an unsubscribe
  inflight,       \* events the transport has emitted and not yet handed over
  nextEv,         \* id of the next event the transport emits
  fanouts,        \* forEach loops of the event handler that are running
  handlerResult,  \* how the last finished run of the event handler ended
  received        \* <<key, cb>> -> ids of the events cb was invoked with for key

rmVars == <<callbacks, sets, subscriptions, channels, subs, detached,
            inflight, nextEv, fanouts, handlerResult, received>>

\* OptimisticUpdates
VARIABLES
  pendingUpdates, \* this.pendingUpdates: the Map's entries, in iteration order
  now,            \* Date.now(), in ms
  view            \* the last call that returned something: its arguments, what
                  \* it returned and, for applyTo*, the caller's array after it

ouVars == <<pendingUpdates, now, view>>

\* DataCache (it reads the same clock and its calls return into the same view)
VARIABLES
  cache,          \* this.cache: the Map's entries, in iteration order
  written         \* history: key -> the value and time of the latest set(key, .)
                  \* that no clear() followed

dcVars == <<cache, written>>

\* ConnectionMonitor
VARIABLES
  isOnline,         \* this.isOnline
  monitorCallbacks, \* this.callbacks: the Set's entries, in insertion order
  detachers,        \* the subscribe calls made, each with its detach closure
  notifying,        \* the forEach of setOnlineStatus: the running or the last one
  notified,         \* callback -> what it was invoked with, and what it read
                    \* from getStatus() then
  statusEvents,     \* connectivity events the platform has raised
  notifyResult      \* how the last finished setOnlineStatus ended

cmVars == <<isOnline, monitorCallbacks, detachers, notifying, notified,
            statusEvents, notifyResult>>

\* Tracker (the component's state, its handler calls, and the server's answers)
VARIABLES
  habits,          \* useState: habits
  tasks,           \* useState: tasks
  habitLogs,       \* useState: habitLogs
  trackerPending,  \* useState: pendingUpdates, the Set of markers
  trackerOnline,   \* useState: isOnline
  loaded,          \* the effect has run loadData for the current isOnline
  loads,           \* the loadData calls that went on to fetch, and how far each is
  server,          \* the user's rows on the server, as a fetch returns them
  calls,           \* the handler calls made: what each captured, and how far it is
  changes          \* change events the server has sent and the client not yet handled

trVars == <<habits, tasks, habitLogs, trackerPending, trackerOnline, loaded,
            loads, server, calls, changes>>

\* ------------------------------------------- database functions (server)
VARIABLES
  stored,          \* rows the server holds for the user, by table
  adds             \* the addHabit / addTodo calls made, and how far each is

dbVars == <<stored, adds>>

nonRM == <<ouVars, dcVars, cmVars, trVars, dbVars>>
nonOU == <<rmVars, dcVars, cmVars, trVars, dbVars>>
nonDC == <<rmVars, pendingUpdates, cmVars, trVars, dbVars>>
nonCM == <<rmVars, ouVars, dcVars, trVars, dbVars>>
nonTR == <<rmVars, pendingUpdates, view, dcVars, cmVars, dbVars>>
nonDB == <<rmVars, ouVars, dcVars, cmVars, trVars>>

vars == <<rmVars, ouVars, dcVars, cmVars, trVars, dbVars>>

\* realtime.js:12  `${table}-${filter || 'all'}`  ('' and null are falsy)
Falsy(filter) == filter = Null \/ filter = <<>>

SubscriptionKey(table, filter) ==
  table \o <<"-">> \o (IF Falsy(filter) THEN <<"all">> ELSE filter)

TargetKey(t) == SubscriptionKey(t.table, t.filter)

\* Set.prototype.add: appends unless present.
SetAdd(s, x) == IF x \in Range(s) THEN s ELSE Append(s, x)

\* Set.prototype.delete.
SetDelete_clear(s, x) == <<>>

SetDelete(s, x) == IF x \in Range(s) THEN RemoveAt(s, IndexOf(s, x)) ELSE s

\* realtime.js:43  .subscribe() is given no status callback, so a join that the
\* server rejects or that times out (CHANNEL_ERROR, TIMED_OUT) reaches nobody.
StatusCallbackPassed == FALSE

\* What establishing the channel (realtime.js:22-43) can do: join, fail later
\* through the status callback, or throw out of the call chain.
Establishments == {"joined", "asyncError", "threw"}

\* Errors of one establishment that reach the caller of subscribe.
Surfaced(est) ==
  CASE est = "threw"      -> 1
    [] est = "asyncError" -> IF StatusCallbackPassed THEN 1 ELSE 0
    [] OTHER              -> 0

\* A running forEach over Set object `set`; idx entries of it are behind the
\* iterator.  Deleting an entry behind the iterator moves the iterator back.
FanoutsAfterDelete(fs, setId, cb) ==
  LET s == sets[setId]
      p == IndexOf(s, cb)
  IN  IF fs = <<>> THEN <<>> ELSE
      [i \in 1..Len(fs) |->
         IF fs[i].set = setId /\ p # 0
         THEN [fs[i] EXCEPT !.idx = IF p <= @ THEN @ - 1 ELSE @,
                            !.removed = @ \cup {cb}]
         ELSE fs[i]]

\* The Set objects that the Map or a running forEach still references; the
\* others are garbage, and their content is dropped.
Collect(ss, cbs, fs) ==
  IF ss = <<>> THEN <<>> ELSE
  [i \in 1..Len(ss) |->
     IF (\E k \in DOMAIN cbs : cbs[k] = i) \/ (\E f \in 1..Len(fs) : fs[f].set = i)
     THEN ss[i] ELSE <<>>]

\* At most one establishment fails in a behaviour.
NoFailureYet == \A i \in 1..Len(subs) : subs[i].est \notin {"asyncError", "threw"}

\* JavaScript runs one thing at a time: while a forEach of the handler is
\* running, the registry can only be called from inside a callback that the
\* forEach has invoked.
CallerCanRun == \A f \in 1..Len(fanouts) : fanouts[f].invoked # <<>>

\* realtime.js:11-59  subscribe(table, callback, filter)
Subscribe(t, cb, est) ==
  LET key    == TargetKey(t)
      hasSet == key \in DOMAIN callbacks
      setId  == IF hasSet THEN callbacks[key] ELSE Len(sets) + 1
      sets1  == IF hasSet THEN sets ELSE Append(sets, <<>>)
      sets2  == [sets1 EXCEPT ![setId] = SetAdd(@, cb)]
      create == key \notin DOMAIN subscriptions
      chanId == Len(channels) + 1
  IN  /\ Len(subs) < MaxSubscribes
      /\ CallerCanRun
      /\ est = "joined" \/ (create /\ NoFailureYet)
      /\ callbacks' = MapSet(callbacks, key, setId)
      /\ sets' = sets2
      /\ detached' = detached \ {<<key, cb>>}
      /\ IF create /\ est # "threw"
         THEN /\ channels' = Append(channels,
                   [key |-> key, target |-> t, joined |-> est = "joined",
                    closedBy |-> "none", unsubCalls |-> 0])
              /\ subscriptions' = MapSet(subscriptions, key, chanId)
         ELSE UNCHANGED <<channels, subscriptions>>
      /\ subs' = Append(subs,
           [key |-> key, target |-> t, cb |-> cb,
            est |-> IF create THEN est ELSE "reused",
            surfaced |-> IF create THEN Surfaced(est) ELSE 0,
            chan |-> IF create
                     THEN (IF est = "threw" THEN 0 ELSE chanId)
                     ELSE subscriptions[key],
            invoked |-> FALSE])
      /\ UNCHANGED <<inflight, nextEv, fanouts, handlerResult, received, nonRM>>

\* realtime.js:49-58  the closure returned by the i-th subscribe call
Unsubscribe(i) ==
  LET h      == subs[i]
      key    == h.key
      hasSet == key \in DOMAIN callbacks
      setId  == IF hasSet THEN callbacks[key] ELSE 0
      sets1  == IF hasSet THEN [sets EXCEPT ![setId] = SetDelete(@, h.cb)] ELSE sets
      empty  == hasSet /\ Len(sets1[setId]) = 0
      hasSub == key \in DOMAIN subscriptions
  IN  /\ h.est # "threw"
      /\ CallerCanRun
      /\ subs' = [subs EXCEPT ![i].invoked = TRUE]
      /\ detached' = detached \cup {<<key, h.cb>>}
      /\ fanouts' = IF hasSet THEN FanoutsAfterDelete(fanouts, setId, h.cb) ELSE fanouts
      /\ sets' = Collect(sets1, IF empty THEN MapDelete(callbacks, key) ELSE callbacks,
                         fanouts')
      /\ IF empty
         THEN /\ channels' = IF hasSub
                             THEN [channels EXCEPT
                                     ![subscriptions[key]].closedBy = "unsubscribe",
                                     ![subscriptions[key]].unsubCalls = @ + 1]
                             ELSE channels
              /\ subscriptions' = MapDelete(subscriptions, key)
              /\ callbacks' = MapDelete(callbacks, key)
         ELSE UNCHANGED <<channels, subscriptions, callbacks>>
      /\ UNCHANGED <<inflight, nextEv, handlerResult, received, nonRM>>

\* realtime.js:77-83  cleanup(): the Map is cleared, the Set objects are not
Cleanup ==
  /\ DOMAIN callbacks # {} \/ DOMAIN subscriptions # {}
  /\ CallerCanRun
  /\ channels' = IF channels = <<>> THEN <<>> ELSE
                 [c \in 1..Len(channels) |->
                    IF \E k \in DOMAIN subscriptions : subscriptions[k] = c
                    THEN [channels[c] EXCEPT !.closedBy = "cleanup",
                                             !.unsubCalls = @ + 1]
                    ELSE channels[c]]
  /\ subscriptions' = EmptyMap
  /\ callbacks' = EmptyMap
  /\ sets' = Collect(sets, callbacks', fanouts)
  /\ UNCHANGED <<subs, detached, inflight, nextEv, fanouts, handlerResult, received, nonRM>>

\* The transport emits a change event on a joined channel that is still open.
\* All channels share one connection, so events arrive in the order emitted.
Emit(c) ==
  /\ nextEv <= MaxEvents
  /\ channels[c].joined /\ channels[c].closedBy = "none"
  /\ inflight' = Append(inflight, [id |-> nextEv, chan |-> c])
  /\ nextEv' = nextEv + 1
  /\ UNCHANGED <<callbacks, sets, subscriptions, channels, subs, detached,
                 fanouts, handlerResult, received, nonRM>>

\* realtime.js:32-41 is synchronous: the handler runs to completion before the
\* transport can hand over the next event.
CanDispatch_async(fs) == TRUE

CanDispatch(fs) == Len(fs) = 0

\* realtime.js:34  Set.prototype.forEach visits the live Set: entries deleted
\* before they are reached are skipped, entries added meanwhile are visited.
Pending_snapshot(fo) == SubSeq(fo.start, Len(fo.invoked) + 1, Len(fo.start))

Pending(fo) == SubSeq(sets[fo.set], fo.idx + 1, Len(sets[fo.set]))

\* realtime.js:35-39  try { cb(payload) } catch: does the loop go on after a
\* callback that ended with `outcome`?
CatchCallback_rethrow(outcome) == outcome # "throw"

CatchCallback(outcome) == TRUE

\* The callbacks that were in the Set when the forEach began and were not
\* deleted from it meanwhile have all been invoked.
Complete(fo) == (Range(fo.start) \ fo.removed) \subseteq Range(fo.invoked)

\* realtime.js:32-34  the handler of the channel that carried the event looks
\* the callback Set up by its own subscriptionKey, when the event arrives.
Deliver ==
  /\ inflight # <<>>
  /\ CanDispatch(fanouts)
  /\ LET e   == Head(inflight)
         key == channels[e.chan].key
     IN  IF key \in DOMAIN callbacks
         THEN /\ fanouts' = Append(fanouts,
                   [ev |-> e.id, chan |-> e.chan, key |-> key,
                    set |-> callbacks[key], idx |-> 0,
                    start |-> sets[callbacks[key]], removed |-> {},
                    invoked |-> <<>>, threw |-> {}])
              /\ handlerResult' = handlerResult
         ELSE /\ fanouts' = fanouts
              /\ handlerResult' = "returned"
  /\ inflight' = Tail(inflight)
  /\ UNCHANGED <<callbacks, sets, subscriptions, channels, subs, detached,
                 nextEv, received, nonRM>>

\* realtime.js:34-40  one turn of the forEach: cb(payload) inside try/catch
Step(f, outcome) ==
  LET fo == fanouts[f]
      p  == Pending(fo)
      cb == Head(p)
      fo1 == [fo EXCEPT !.idx = @ + 1, !.invoked = Append(@, cb),
                        !.threw = IF outcome = "throw" THEN @ \cup {cb} ELSE @]
  IN  /\ p # <<>>
      /\ received' = MapSet(received, <<fo.key, cb>>,
                             Append(IF <<fo.key, cb>> \in DOMAIN received
                                    THEN received[<<fo.key, cb>>] ELSE <<>>, fo.ev))
      /\ IF CatchCallback(outcome)
         THEN /\ fanouts' = [fanouts EXCEPT ![f] = fo1]
              /\ handlerResult' = handlerResult
         ELSE /\ fanouts' = RemoveAt(fanouts, f)
              /\ handlerResult' = "threw"
      /\ sets' = Collect(sets, callbacks, fanouts')
      /\ UNCHANGED <<callbacks, subscriptions, channels, subs, detached,
                     inflight, nextEv, nonRM>>

\* realtime.js:40-41  the forEach is exhausted and the handler returns
Finish(f) ==
  LET fo == fanouts[f]
  IN  /\ Pending(fo) = <<>>
      /\ fanouts' = RemoveAt(fanouts, f)
      /\ handlerResult' = "returned"
      /\ sets' = Collect(sets, callbacks, fanouts')
      /\ UNCHANGED <<callbacks, subscriptions, channels, subs, detached,
                     inflight, nextEv, received, nonRM>>

\* ------------------------------------------- database functions (server)
\* realtime.js:502, 659  the most rows a user may have in a table
MaxHabitRows == 100
MaxTodoRows  == 200

RowLimit(table) == IF table = "habits" THEN MaxHabitRows ELSE MaxTodoRows

\* realtime.js:492-500, 649-657  addHabit / addTodo up to the answer of the
\* count query (the user is logged in)
DbAdd(table) ==
  /\ Len(adds) < MaxAdds
  /\ adds' = Append(adds, [table |-> table, pc |-> "counting", count |-> 0])
  /\ UNCHANGED <<stored, nonDB>>

\* realtime.js:497-504, 654-661  the count arrives; at the limit the call throws,
\* below it the insert is sent
DbCounted(a) ==
  LET count == stored[adds[a].table]
  IN  /\ adds[a].pc = "counting"
      /\ adds' = [adds EXCEPT ![a].count = count,
                              ![a].pc = IF count >= RowLimit(adds[a].table)
                                        THEN "threw" ELSE "inserting"]
      /\ UNCHANGED <<stored, nonDB>>

\* realtime.js:506-519, 663-673  the server carries out the insert, or refuses
\* it (error), and the call returns data[0] or throws
DbInserted(a, ok) ==
  /\ adds[a].pc = "inserting"
  /\ stored' = IF ok THEN [stored EXCEPT ![adds[a].table] = @ + 1] ELSE stored
  /\ adds' = [adds EXCEPT ![a].pc = IF ok THEN "returned" ELSE "threw"]
  /\ UNCHANGED nonDB

DBNext ==
  \/ \E table \in {"habits", "todos"} : DbAdd(table)
  \/ \E a \in 1..Len(adds) : DbCounted(a)
  \/ \E a \in 1..Len(adds), ok \in BOOLEAN : DbInserted(a, ok)

\* ----------------------------------------------------- OptimisticUpdates
MaxAgeMs == 30000       \* realtime.js:116
MaxClock == 30001       \* the clock stops here
TickSteps == {MaxAgeMs, MaxAgeMs + 1}

Undefined == [undefined |-> TRUE]
NoView    == [op |-> "none"]

LedgerKeys == {"k1", "k2"}

\* The pending updates callers register: by class, an add, a delete, an update.
Updates ==
  { [type |-> "habit", operation |-> "add", data |-> [id |-> "3", name |-> "C"]],
    [type |-> "habit", operation |-> "delete", id |-> "1"],
    [type |-> "habit", operation |-> "update", id |-> "1", data |-> [name |-> "Z"]],
    [type |-> "habitLog", operation |-> "add",
     data |-> [habit_id |-> "1", log_date |-> "d2"]],
    [type |-> "habitLog", operation |-> "delete", habitId |-> "1", logDate |-> "d1"],
    [type |-> "habitLog", operation |-> "update", habitId |-> "1", logDate |-> "d1",
     data |-> [log_date |-> "d3"]],
    [type |-> "todo", operation |-> "add", data |-> [id |-> "3", title |-> "C"]],
    [type |-> "todo", operation |-> "delete", id |-> "1"],
    [type |-> "todo", operation |-> "update", id |-> "1", data |-> [title |-> "Z"]] }

\* The collections a caller may hold (the second and third hold a record whose
\* identity occurs twice, or precedes another record).
Bases(c) ==
  CASE c = "habit" ->
         { <<>>,
           <<[id |-> "1", name |-> "A"], [id |-> "2", name |-> "B"]>>,
           <<[id |-> "2", name |-> "B"], [id |-> "1", name |-> "A"],
             [id |-> "1", name |-> "A2"]>> }
    [] c = "habitLog" ->
         { <<>>,
           <<[habit_id |-> "1", log_date |-> "d1"], [habit_id |-> "2", log_date |-> "d1"]>>,
           <<[habit_id |-> "1", log_date |-> "d2"], [habit_id |-> "1", log_date |-> "d1"],
             [habit_id |-> "1", log_date |-> "d1"]>> }
    [] c = "todo" ->
         { <<>>,
           <<[id |-> "1", title |-> "A"], [id |-> "2", title |-> "B"]>>,
           <<[id |-> "2", title |-> "B"], [id |-> "1", title |-> "A"],
             [id |-> "1", title |-> "A2"]>> }

Classes == {"habit", "habitLog", "todo"}

\* Object spread  { ...a, ...b }: b's fields override, a's others are retained.
Spread(a, b) ==
  [f \in (DOMAIN a) \cup (DOMAIN b) |-> IF f \in DOMAIN b THEN b[f] ELSE a[f]]

\* Map.prototype.set on the entries: an existing key keeps its place.
LedgerSet_append(entries, k, v) == Append(entries, [key |-> k, value |-> v])

LedgerSet(entries, k, v) ==
  IF \E i \in 1..Len(entries) : entries[i].key = k
  THEN [i \in 1..Len(entries) |->
          IF entries[i].key = k THEN [key |-> k, value |-> v] ELSE entries[i]]
  ELSE Append(entries, [key |-> k, value |-> v])

\* Map.prototype.delete
LedgerDelete_keep(entries, k) == entries

LedgerDelete(entries, k) == SelectSeq(entries, LAMBDA e : e.key # k)

\* realtime.js:108-110  getPendingUpdate(key)
GetPendingUpdate(entries, k) ==
  IF \E i \in 1..Len(entries) : entries[i].key = k
  THEN entries[CHOOSE i \in 1..Len(entries) : entries[i].key = k].value
  ELSE Undefined

\* realtime.js:5-8, 90-92: the constructors, before any call
Init ==
  /\ callbacks = EmptyMap
  /\ sets = <<>>
  /\ subscriptions = EmptyMap
  /\ channels = <<>>
  /\ subs = <<>>
  /\ detached = {}
  /\ inflight = <<>>
  /\ nextEv = 1
  /\ fanouts = <<>>
  /\ handlerResult = "none"
  /\ received = EmptyMap
  /\ pendingUpdates = <<>>
  /\ now = 0
  /\ view = NoView
  /\ cache = <<>>
  /\ written = EmptyMap
  /\ isOnline = TRUE
  /\ monitorCallbacks = <<>>
  /\ detachers = <<>>
  /\ notifying = [active |-> FALSE, status |-> TRUE, idx |-> 0, start |-> <<>>,
                  removed |-> {}, invoked |-> <<>>, threw |-> {}]
  /\ notified = EmptyMap
  /\ statusEvents = 0
  /\ notifyResult = "none"
  /\ habits = <<>>
  /\ tasks = <<>>
  /\ habitLogs = <<>>
  /\ trackerPending = {}
  /\ trackerOnline = TRUE
  /\ loaded = FALSE
  /\ loads = <<>>
  /\ server = UserRows
  /\ calls = <<>>
  /\ changes = <<>>
  /\ stored = [t \in {"habits", "todos"} |-> RowLimit(t) - 1]
  /\ adds = <<>>

\* Time passes.
Tick(d) ==
  /\ now + d <= MaxClock
  /\ now' = now + d
  /\ view' = NoView
  /\ UNCHANGED <<pendingUpdates, nonOU>>

\* realtime.js:95-100  addPendingUpdate(key, update)
AddPendingUpdate(k, u) ==
  /\ pendingUpdates' = LedgerSet(pendingUpdates, k, Spread(u, [timestamp |-> now]))
  /\ view' = NoView
  /\ UNCHANGED <<now, nonOU>>

\* realtime.js:103-105  removePendingUpdate(key)
RemovePendingUpdate(k) ==
  /\ pendingUpdates' = LedgerDelete(pendingUpdates, k)
  /\ view' = NoView
  /\ UNCHANGED <<now, nonOU>>

\* realtime.js:108-110  getPendingUpdate(key)
Get(k) ==
  /\ view' = [op |-> "get", key |-> k, value |-> GetPendingUpdate(pendingUpdates, k)]
  /\ UNCHANGED <<pendingUpdates, now, nonOU>>

\* realtime.js:116  now - update.timestamp > 30000
IsOld_atAge(nowMs, update) == nowMs - update.timestamp >= MaxAgeMs

IsOld(nowMs, update) == nowMs - update.timestamp > MaxAgeMs

\* realtime.js:113-120  cleanOldUpdates(); the view keeps how many it deleted.
CleanOldUpdates ==
  /\ pendingUpdates' = SelectSeq(pendingUpdates, LAMBDA e : ~IsOld(now, e.value))
  /\ view' = [op |-> "cleanOldUpdates",
              deleted |-> Len(pendingUpdates)
                            - Len(SelectSeq(pendingUpdates,
                                            LAMBDA e : ~IsOld(now, e.value)))]
  /\ UNCHANGED <<now, nonOU>>

\* A result array under construction.  `res` holds each element with the place
\* of the caller's array whose object it is (0: an object of its own); `base`
\* is the caller's array; `aliased` says that the two are one array.
Tagged(arr) ==
  IF arr = <<>> THEN <<>> ELSE [i \in 1..Len(arr) |-> [rec |-> arr[i], src |-> i]]

Recs(res) == IF res = <<>> THEN <<>> ELSE [i \in 1..Len(res) |-> res[i].rec]

\* realtime.js:129,151,170  const result = [...habits]
SpreadCopy_alias(arr) == [aliased |-> TRUE, base |-> arr, res |-> Tagged(arr)]

SpreadCopy(arr) == [aliased |-> FALSE, base |-> arr, res |-> Tagged(arr)]

\* A write to the result array is a write to the caller's array if they are one.
Written(st, res1) ==
  [st EXCEPT !.res = res1, !.base = IF st.aliased THEN Recs(res1) ELSE @]

\* result.push(update.data)
Push(st, data) == Written(st, Append(st.res, [rec |-> data, src |-> 0]))

\* result.splice(index, 1)
Splice(st, index) == Written(st, RemoveAt(st.res, index))

\* result[index] = { ...result[index], ...update.data }: a new object
AssignMerged_inplace(st, index, data) ==
  LET merged == Spread(st.res[index].rec, data)
      src    == st.res[index].src
      res1   == [st.res EXCEPT ![index].rec = merged]
  IN  [st EXCEPT !.res = res1,
                 !.base = IF st.aliased THEN Recs(res1)
                          ELSE IF src # 0 THEN [@ EXCEPT ![src] = merged] ELSE @]

AssignMerged(st, index, data) ==
  Written(st, [st.res EXCEPT ![index] =
                 [rec |-> Spread(st.res[index].rec, data), src |-> 0]])

\* Array.prototype.findIndex over the outcomes of the predicate: the first
\* index that matches, -1 when none does.
FirstIndex_last(matches) ==
  IF \E i \in DOMAIN matches : matches[i]
  THEN CHOOSE i \in DOMAIN matches :
         matches[i] /\ \A j \in DOMAIN matches : matches[j] => j <= i
  ELSE -1

FirstIndex(matches) ==
  IF \E i \in DOMAIN matches : matches[i]
  THEN CHOOSE i \in DOMAIN matches :
         matches[i] /\ \A j \in DOMAIN matches : matches[j] => i <= j
  ELSE -1

\* h => h.id === update.id
IdMatches(res, update) == [j \in DOMAIN res |-> res[j].rec.id = update.id]

\* log => log.habit_id === update.habitId && log.log_date === update.logDate
LogMatches(res, update) ==
  [j \in DOMAIN res |->
     res[j].rec.habit_id = update.habitId /\ res[j].rec.log_date = update.logDate]

\* realtime.js:131-145 and 172-186: the loop of applyToHabits and applyToTodos
RECURSIVE ByIdLoop(_, _, _, _)
ByIdLoop(type, st, entries, i) ==
  IF i > Len(entries) THEN st
  ELSE
    LET update == entries[i].value
        index  == FirstIndex(IdMatches(st.res, update))
        st1 ==
          IF update.type = type
          THEN IF update.operation = "add" THEN Push(st, update.data)
               ELSE IF update.operation = "delete"
                    THEN (IF index # -1 THEN Splice(st, index) ELSE st)
               ELSE IF update.operation = "update"
                    THEN (IF index # -1 THEN AssignMerged(st, index, update.data) ELSE st)
               ELSE st
          ELSE st
    IN  ByIdLoop(type, st1, entries, i + 1)

\* realtime.js:153-164: the loop of applyToHabitLogs (add and delete only)
RECURSIVE LogLoop(_, _, _)
LogLoop(st, entries, i) ==
  IF i > Len(entries) THEN st
  ELSE
    LET update == entries[i].value
        index  == FirstIndex(LogMatches(st.res, update))
        st1 ==
          IF update.type = "habitLog"
          THEN IF update.operation = "add" THEN Push(st, update.data)
               ELSE IF update.operation = "delete"
                    THEN (IF index # -1 THEN Splice(st, index) ELSE st)
               ELSE st
          ELSE st
    IN  LogLoop(st1, entries, i + 1)

\* What a call leaves: the caller's array and the returned array.
Returns(st) == [base |-> st.base, result |-> Recs(st.res)]

\* realtime.js:128-148
ApplyToHabits(habitsArg, entries) ==
  Returns(ByIdLoop("habit", SpreadCopy(habitsArg), entries, 1))

\* realtime.js:150-167
ApplyToHabitLogs(habitLogsArg, entries) ==
  Returns(LogLoop(SpreadCopy(habitLogsArg), entries, 1))

\* realtime.js:169-189
ApplyToTodos(todos, entries) ==
  Returns(ByIdLoop("todo", SpreadCopy(todos), entries, 1))

\* The projection of the caller's class.
ApplyTo(c, arr, entries) ==
  CASE c = "habit"    -> ApplyToHabits(arr, entries)
    [] c = "habitLog" -> ApplyToHabitLogs(arr, entries)
    [] c = "todo"     -> ApplyToTodos(arr, entries)

\* A caller projects the collection arr, of class c, that it holds.
Project(c, arr) ==
  LET r == ApplyTo(c, arr, pendingUpdates)
  IN  /\ view' = [op |-> "applyTo", cls |-> c, arg |-> arr,
                  after |-> r.base, value |-> r.result]
      /\ UNCHANGED <<pendingUpdates, now, nonOU>>

\* ------------------------------------------------------------- DataCache
\* realtime.js:220  ttl = 5 * 60 * 1000
ttl == 5 * 60 * 1000

MaxCacheClock == 600001  \* the clock stops here
CacheTickSteps == {ttl - 1, ttl, ttl + 1}

CacheKeys == {"c1", "c2"}
CacheValues == {<<"v1">>, <<"v2">>}

\* realtime.js:226-229  this.cache.set(key, { value, timestamp: Date.now() })
CacheStore_keepFirst(entries, k, item) ==
  IF \E i \in 1..Len(entries) : entries[i].key = k
  THEN entries
  ELSE Append(entries, [key |-> k, value |-> item])

CacheStore(entries, k, item) == LedgerSet(entries, k, item)

\* realtime.js:236  Date.now() - item.timestamp > this.ttl
GetExpired_atTtl(nowMs, item) == nowMs - item.timestamp >= ttl

GetExpired(nowMs, item) == nowMs - item.timestamp > ttl

\* realtime.js:251  now - item.timestamp > this.ttl
CleanupExpired_atTtl(nowMs, item) == nowMs - item.timestamp >= ttl

CleanupExpired(nowMs, item) == nowMs - item.timestamp > ttl

\* realtime.js:232-242  what get(key) returns
GetReturns(entries, k, nowMs) ==
  LET item == GetPendingUpdate(entries, k)
  IN  IF item = Undefined THEN Null
      ELSE IF GetExpired(nowMs, item) THEN Null
      ELSE item.value

\* realtime.js:232-242  the entries get(key) leaves
GetLeaves(entries, k, nowMs) ==
  LET item == GetPendingUpdate(entries, k)
  IN  IF item = Undefined THEN entries
      ELSE IF GetExpired(nowMs, item) THEN LedgerDelete(entries, k)
      ELSE entries

\* Time passes.
CacheTick(d) ==
  /\ now + d <= MaxCacheClock
  /\ now' = now + d
  /\ view' = NoView
  /\ UNCHANGED <<cache, written, nonDC>>

\* realtime.js:225-230  set(key, value)
DataCacheSet(k, v) ==
  /\ cache' = CacheStore(cache, k, [value |-> v, timestamp |-> now])
  /\ written' = MapSet(written, k, [value |-> v, at |-> now])
  /\ view' = NoView
  /\ UNCHANGED <<now, nonDC>>

\* realtime.js:232-242  get(key)
DataCacheGet(k) ==
  /\ view' = [op |-> "cacheGet", key |-> k, value |-> GetReturns(cache, k, now)]
  /\ cache' = GetLeaves(cache, k, now)
  /\ UNCHANGED <<written, now, nonDC>>

\* realtime.js:244-246  clear()
DataCacheClear ==
  /\ cache' = <<>>
  /\ written' = EmptyMap
  /\ view' = NoView
  /\ UNCHANGED <<now, nonDC>>

\* realtime.js:248-255  cleanup(); the view keeps how many it deleted.
DataCacheCleanup ==
  /\ cache' = SelectSeq(cache, LAMBDA e : ~CleanupExpired(now, e.value))
  /\ view' = [op |-> "cacheCleanup",
              deleted |-> Len(cache)
                            - Len(SelectSeq(cache,
                                            LAMBDA e : ~CleanupExpired(now, e.value)))]
  /\ UNCHANGED <<written, now, nonDC>>

DCNext ==
  \/ \E d \in CacheTickSteps : CacheTick(d)
  \/ \E k \in CacheKeys, v \in CacheValues : DataCacheSet(k, v)
  \/ \E k \in CacheKeys : DataCacheGet(k)
  \/ DataCacheClear
  \/ DataCacheCleanup

SpecDC == Init /\ [][DCNext]_vars

\* ----------------------------------------------------- ConnectionMonitor
MaxMonitorSubscribes == 2
MaxStatusEvents == 2

\* realtime.js:271  this.isOnline = status, before the forEach
StatusStored_late(status, old) == old

StatusStored(status, old) == status

\* realtime.js:283  this.callbacks.delete(callback)
MonitorDelete_clear(s, cb) == <<>>

MonitorDelete(s, cb) == SetDelete(s, cb)

\* realtime.js:272  forEach visits the live Set
ToNotify_snapshot(n) == SubSeq(n.start, Len(n.invoked) + 1, Len(n.start))

ToNotify(n) == SubSeq(monitorCallbacks, n.idx + 1, Len(monitorCallbacks))

\* realtime.js:273-277  try { callback(status) } catch: does the loop go on
\* after a callback that ended with `outcome`?
MonitorCatch_rethrow(outcome) == outcome # "throw"

MonitorCatch(outcome) == TRUE

\* While the forEach of setOnlineStatus runs, the monitor can only be called
\* from inside a callback that the forEach has invoked.
MonitorCallerCanRun == notifying.active => notifying.invoked # <<>>

\* realtime.js:281-284  subscribe(callback)
MonitorSubscribe(cb) ==
  /\ Len(detachers) < MaxMonitorSubscribes
  /\ MonitorCallerCanRun
  /\ monitorCallbacks' = SetAdd(monitorCallbacks, cb)
  /\ detachers' = Append(detachers, [cb |-> cb, invoked |-> FALSE])
  /\ UNCHANGED <<isOnline, notifying, notified, statusEvents, notifyResult, nonCM>>

\* realtime.js:283  the function subscribe returned, invoked
Detach(i) ==
  LET cb == detachers[i].cb
      p  == IndexOf(monitorCallbacks, cb)
  IN  /\ MonitorCallerCanRun
      /\ monitorCallbacks' = MonitorDelete(monitorCallbacks, cb)
      /\ detachers' = [detachers EXCEPT ![i].invoked = TRUE]
      /\ notifying' =
           IF notifying.active /\ p # 0
           THEN [notifying EXCEPT
                   !.idx = IF p <= @ THEN @ - 1 ELSE @,
                   !.removed = @ \cup (Range(monitorCallbacks)
                                          \ Range(MonitorDelete(monitorCallbacks, cb)))]
           ELSE notifying
      /\ UNCHANGED <<isOnline, notified, statusEvents, notifyResult, nonCM>>

\* realtime.js:266-272  an online / offline event: setOnlineStatus(status) up
\* to the forEach
SetOnlineStatus(status) ==
  /\ ~notifying.active
  /\ statusEvents < MaxStatusEvents
  /\ statusEvents' = statusEvents + 1
  /\ isOnline' = StatusStored(status, isOnline)
  /\ notifying' = [active |-> TRUE, status |-> status, idx |-> 0,
                   start |-> monitorCallbacks, removed |-> {},
                   invoked |-> <<>>, threw |-> {}]
  /\ UNCHANGED <<monitorCallbacks, detachers, notified, notifyResult, nonCM>>

\* realtime.js:272-278  one turn of the forEach: callback(status) inside
\* try/catch; the callback reads getStatus() (realtime.js:286-288)
NotifyStep(outcome) ==
  LET p  == ToNotify(notifying)
      cb == Head(p)
      n1 == [notifying EXCEPT !.idx = @ + 1, !.invoked = Append(@, cb),
                              !.threw = IF outcome = "throw" THEN @ \cup {cb} ELSE @]
  IN  /\ notifying.active
      /\ p # <<>>
      /\ notified' = MapSet(notified, cb,
                            Append(IF cb \in DOMAIN notified THEN notified[cb] ELSE <<>>,
                                   [arg |-> notifying.status, read |-> isOnline]))
      /\ IF MonitorCatch(outcome)
         THEN /\ notifying' = n1
              /\ notifyResult' = notifyResult
         ELSE /\ notifying' = [n1 EXCEPT !.active = FALSE]
              /\ notifyResult' = "threw"
      /\ UNCHANGED <<isOnline, monitorCallbacks, detachers, statusEvents, nonCM>>

\* realtime.js:278-279  the forEach is exhausted and setOnlineStatus returns
NotifyEnd ==
  /\ notifying.active
  /\ ToNotify(notifying) = <<>>
  /\ notifying' = [notifying EXCEPT !.active = FALSE]
  /\ notifyResult' = "returned"
  /\ UNCHANGED <<isOnline, monitorCallbacks, detachers, notified, statusEvents, nonCM>>

CMNext ==
  \/ \E cb \in CB : MonitorSubscribe(cb)
  \/ \E i \in 1..Len(detachers) : Detach(i)
  \/ \E status \in BOOLEAN : SetOnlineStatus(status)
  \/ \E o \in {"return", "throw"} : NotifyStep(o)
  \/ NotifyEnd

SpecCM == Init /\ [][CMNext]_vars

\* --------------------------------------------------------------- Tracker
MaxCalls == 2

NewNames == {<<"N">>}
Days == {<<"d1">>, <<"d2">>}

Collection(coll) ==
  CASE coll = "habits"    -> habits
    [] coll = "tasks"     -> tasks
    [] coll = "habitLogs" -> habitLogs

\* setHabits / setTasks / setHabitLogs: the collection coll becomes new.
SetCollection(coll, new) ==
  /\ habits'    = IF coll = "habits" THEN new ELSE habits
  /\ tasks'     = IF coll = "tasks" THEN new ELSE tasks
  /\ habitLogs' = IF coll = "habitLogs" THEN new ELSE habitLogs

\* Array.prototype.filter / map / find
Filter(arr, Keep(_)) == SelectSeq(arr, Keep)

Map(arr, F(_)) == IF arr = <<>> THEN <<>> ELSE [i \in 1..Len(arr) |-> F(arr[i])]

Find(arr, Test(_)) ==
  IF \E i \in 1..Len(arr) : Test(arr[i])
  THEN arr[CHOOSE i \in 1..Len(arr) :
             Test(arr[i]) /\ \A j \in 1..(i - 1) : ~Test(arr[j])]
  ELSE Undefined

\* The calls in flight on a collection that another call or an event changes
\* are no longer alone with it (history, for the claims).
Touched(cs, coll, new, except) ==
  IF cs = <<>> THEN <<>> ELSE
  [i \in 1..Len(cs) |->
     IF i # except /\ cs[i].coll = coll /\ cs[i].status = "awaiting"
        /\ new # Collection(coll)
     THEN [cs[i] EXCEPT !.alone = FALSE] ELSE cs[i]]

\* React runs the effect that calls loadData (part_000:757-759) after the
\* render that follows a state change and before it handles anything else:
\* the component's callbacks run when no run of the effect is due.
EffectsFlushed == loaded

\* A handler call up to its await: the optimistic change, the marker, the write.
Begin(op, coll, marker, id, saved, new) ==
  /\ EffectsFlushed
  /\ Len(calls) < MaxCalls
  /\ SetCollection(coll, new)
  /\ trackerPending' = trackerPending \cup {marker}
  /\ calls' = Append(Touched(calls, coll, new, 0),
                     [op |-> op, coll |-> coll, marker |-> marker, id |-> id,
                      saved |-> saved, online |-> trackerOnline,
                      before |-> Collection(coll), alone |-> TRUE,
                      status |-> "awaiting", committed |-> FALSE, row |-> Undefined,
                      seen |-> FALSE])
  /\ UNCHANGED <<trackerOnline, loaded, loads, server, changes, now, nonTR>>

\* part_000:704  `data-${user.id}-${currentMonth}`
CacheKey == "data-u1-2026-11"

\* part_000:705  dataCache.get(cacheKey) returns an object, not null
\* (realtime.js:232-242: the key has an entry and it has not expired)
HasCached(entries, nowMs) ==
  /\ GetPendingUpdate(entries, CacheKey) # Undefined
  /\ ~GetExpired(nowMs, GetPendingUpdate(entries, CacheKey))

\* part_000:707  if (cachedData && isOnline)
CacheTrusted_anyStatus(hasCached, online) == hasCached

CacheTrusted(hasCached, online) == hasCached /\ online

\* setHabits, setTasks, setHabitLogs with the three collections of data.
Install(data) ==
  /\ habits' = data.habits
  /\ tasks' = data.tasks
  /\ habitLogs' = data.habitLogs
  /\ calls' = Touched(Touched(Touched(calls, "habits", data.habits, 0),
                              "tasks", data.tasks, 0),
                      "habitLogs", data.habitLogs, 0)

\* part_000:694-719  loadData up to its return or its await: the cached data
\* is installed, or the three fetches are sent.  useEffect runs it after the
\* mount and whenever isOnline has changed (part_000:755-759).
LoadData ==
  LET hasCached == HasCached(cache, now)
  IN  /\ ~loaded
      /\ loaded' = TRUE
      /\ cache' = GetLeaves(cache, CacheKey, now)
      /\ IF CacheTrusted(hasCached, trackerOnline)
         THEN /\ Install(GetReturns(cache, CacheKey, now))
              /\ loads' = loads
         ELSE /\ Len(loads) < MaxLoads
              /\ loads' = Append(loads, [status |-> "fetching",
                                         online |-> trackerOnline])
              /\ UNCHANGED <<habits, tasks, habitLogs, calls>>
      /\ UNCHANGED <<trackerPending, trackerOnline, server, changes, written, now,
                     rmVars, pendingUpdates, view, cmVars, dbVars>>

\* part_000:732-736  what the cache holds after the fetched data is stored
CacheAfterFetch_notStored(entries, data, nowMs) == entries

CacheAfterFetch(entries, data, nowMs) ==
  CacheStore(entries, CacheKey, [value |-> data, timestamp |-> nowMs])

\* part_000:715-741  the three fetches of load l have answered: the rows are
\* installed and stored in the cache
LoadFetched(l) ==
  /\ EffectsFlushed
  /\ loads[l].status = "fetching"
  /\ loads' = [loads EXCEPT ![l].status = "installed"]
  /\ Install(server)
  /\ cache' = CacheAfterFetch(cache, server, now)
  /\ written' = MapSet(written, CacheKey, [value |-> server, at |-> now])
  /\ UNCHANGED <<trackerPending, trackerOnline, loaded, server, changes, now,
                 rmVars, pendingUpdates, view, cmVars, dbVars>>

\* part_000:742-753  a fetch of load l has thrown: the collections are emptied
LoadFailed(l) ==
  /\ EffectsFlushed
  /\ loads[l].status = "fetching"
  /\ loads' = [loads EXCEPT ![l].status = "failed"]
  /\ Install([habits |-> <<>>, tasks |-> <<>>, habitLogs |-> <<>>])
  /\ UNCHANGED <<trackerPending, trackerOnline, loaded, server, changes, now,
                 nonTR>>

\* part_000:634  connectionMonitor calls setIsOnline; loadData depends on
\* isOnline (part_000:755), so the effect will run it again
SetIsOnline(status) ==
  /\ EffectsFlushed
  /\ trackerOnline # status
  /\ trackerOnline' = status
  /\ loaded' = FALSE
  /\ UNCHANGED <<habits, tasks, habitLogs, trackerPending, loads, server, calls,
                 changes, now, nonTR>>

\* part_000:777-791  addHabit up to the await
AddHabit(name) ==
  LET tempId == <<"temp-", now>>
      tempHabit == [id |-> tempId, name |-> name, user_id |-> UserId]
  IN  Begin("addHabit", "habits", tempId, tempId, name, Append(habits, tempHabit))

\* part_000:807-834  toggleHabit up to the await
ToggleHabit(habitId, logDate) ==
  LET Same(log) == log.habit_id = habitId /\ log.log_date = logDate
      Other(log) == ~Same(log)
      existingLog == Find(habitLogs, Same)
      updateKey == habitId \o <<"-">> \o logDate
  IN  Begin("toggleHabit", "habitLogs", updateKey,
            [habit_id |-> habitId, log_date |-> logDate],
            existingLog # Undefined,
            IF existingLog # Undefined
            THEN Filter(habitLogs, Other)
            ELSE Append(habitLogs, [habit_id |-> habitId, log_date |-> logDate]))

\* part_000:847-855  deleteHabit up to the await
DeleteHabit(id) ==
  LET Is(h) == h.id = id
      IsNot(h) == h.id # id
      habitToDelete == Find(habits, Is)
  IN  /\ habitToDelete # Undefined
      /\ Begin("deleteHabit", "habits", <<"delete-">> \o id, id, habitToDelete,
               Filter(habits, IsNot))

\* part_000:866-880  addTask up to the await
AddTask(name) ==
  LET tempId == <<"temp-task-", now>>
      tempTask == [id |-> tempId, name |-> name, title |-> name, completed |-> FALSE]
  IN  Begin("addTask", "tasks", tempId, tempId, name, Append(tasks, tempTask))

\* part_000:906-908, 915-917  { ...t, completed: !t.completed } for the task id
Toggled(arr, id) ==
  LET Flip(t) == IF t.id = id THEN [t EXCEPT !.completed = ~@] ELSE t
  IN  Map(arr, Flip)

\* part_000:902-912  toggleTask up to the await
ToggleTask(id) ==
  LET Is(t) == t.id = id
      task == Find(tasks, Is)
  IN  /\ task # Undefined
      /\ Begin("toggleTask", "tasks", <<"task-">> \o id, id, task, Toggled(tasks, id))

\* part_000:924-932  deleteTask up to the await
DeleteTask(id) ==
  LET Is(t) == t.id = id
      IsNot(t) == t.id # id
      taskToDelete == Find(tasks, Is)
  IN  /\ taskToDelete # Undefined
      /\ Begin("deleteTask", "tasks", <<"delete-task-">> \o id, id, taskToDelete,
               Filter(tasks, IsNot))

\* The row the server stores for the write of call c, and sends back
\* (realtime.js:506-519, 663-673: insert(...).select(), data[0]).
ServerRow(c) ==
  LET call == calls[c]
  IN  CASE call.op = "addHabit" ->
             [id |-> <<"s", c>>, name |-> call.saved, completed |-> FALSE,
              user_id |-> UserId]
        [] call.op = "addTask" ->
             [id |-> <<"s", c>>, title |-> call.saved, completed |-> FALSE,
              user_id |-> UserId]
        [] call.op = "toggleTask" ->
             [id |-> call.id, title |-> call.saved.title,
              completed |-> ~call.saved.completed, user_id |-> UserId]
        [] call.op = "toggleHabit" ->
             [habit_id |-> call.id.habit_id, log_date |-> call.id.log_date,
              completed |-> TRUE]
        [] OTHER -> Undefined

\* The change event of the write of call c (postgres_changes, event '*').
ChangeOf(c) ==
  LET call == calls[c]
  IN  CASE call.op = "addHabit" ->
             [table |-> "habits", eventType |-> "INSERT", new |-> ServerRow(c),
              old |-> Undefined, call |-> c]
        [] call.op = "deleteHabit" ->
             [table |-> "habits", eventType |-> "DELETE", new |-> Undefined,
              old |-> [id |-> call.id], call |-> c]
        [] call.op = "addTask" ->
             [table |-> "todos", eventType |-> "INSERT", new |-> ServerRow(c),
              old |-> Undefined, call |-> c]
        [] call.op = "toggleTask" ->
             [table |-> "todos", eventType |-> "UPDATE", new |-> ServerRow(c),
              old |-> Undefined, call |-> c]
        [] call.op = "deleteTask" ->
             [table |-> "todos", eventType |-> "DELETE", new |-> Undefined,
              old |-> [id |-> call.id], call |-> c]
        [] call.op = "toggleHabit" ->
             IF call.saved
             THEN [table |-> "habit_logs", eventType |-> "DELETE", new |-> Undefined,
                   old |-> call.id, call |-> c]
             ELSE [table |-> "habit_logs", eventType |-> "INSERT",
                   new |-> ServerRow(c), old |-> Undefined, call |-> c]

\* The user's rows after the write of call c, as a later fetch returns them
\* (realtime.js:483 id and name of a habit, 558 a log with its habit's user,
\* 640 and part_000:723-726 a todo with its name).
ServerAfter(rows, c) ==
  LET call == calls[c]
      NotIt(r) == r.id # call.id
      OtherLog(log) ==
        ~(log.habit_id = call.id.habit_id /\ log.log_date = call.id.log_date)
      Flip(t) == IF t.id = call.id THEN [t EXCEPT !.completed = ~call.saved.completed]
                 ELSE t
  IN  CASE call.op = "addHabit" ->
             [rows EXCEPT !.habits =
                Append(@, [id |-> ServerRow(c).id, name |-> call.saved])]
        [] call.op = "deleteHabit" ->
             [rows EXCEPT !.habits = Filter(@, NotIt)]
        [] call.op = "addTask" ->
             [rows EXCEPT !.tasks =
                Append(@, [id |-> ServerRow(c).id, title |-> call.saved,
                           name |-> call.saved, completed |-> FALSE,
                           user_id |-> UserId])]
        [] call.op = "toggleTask" ->
             [rows EXCEPT !.tasks = Map(@, Flip)]
        [] call.op = "deleteTask" ->
             [rows EXCEPT !.tasks = Filter(@, NotIt)]
        [] call.op = "toggleHabit" ->
             [rows EXCEPT !.habitLogs =
                IF call.saved THEN Filter(@, OtherLog)
                ELSE Append(Filter(@, OtherLog),
                            [habit_id |-> call.id.habit_id,
                             log_date |-> call.id.log_date,
                             habits |-> [user_id |-> UserId]])]

\* The server carries out the write of call c and tells the subscribed clients.
Commit(c) ==
  /\ calls[c].status = "awaiting"
  /\ ~calls[c].committed
  /\ calls' = [calls EXCEPT ![c].committed = TRUE, ![c].row = ServerRow(c)]
  /\ server' = ServerAfter(server, c)
  /\ changes' = Append(changes, ChangeOf(c))
  /\ UNCHANGED <<habits, tasks, habitLogs, trackerPending, trackerOnline, loaded,
                 loads, now, nonTR>>

\* part_000:881  taskForUI
TaskForUI(newTask) == Spread(newTask, [name |-> newTask.title])

\* The try branch after the await, by handler.
\* part_000:792, 882: the temporary record is exchanged for the server's
AfterSuccess(call, cur) ==
  LET Swap(r) ==
        IF r.id = call.id
        THEN IF call.op = "addTask" THEN TaskForUI(call.row) ELSE call.row
        ELSE r
  IN  IF call.op \in {"addHabit", "addTask"} THEN Map(cur, Swap) ELSE cur

\* The catch branch, by handler.
\* part_000:797, 827, 837-839, 859, 887-896, 915-917, 936
AfterFailure(call, cur) ==
  LET NotTemp(r) == r.id # call.id
      OtherLog(log) ==
        ~(log.habit_id = call.id.habit_id /\ log.log_date = call.id.log_date)
  IN  CASE call.op = "addHabit"    -> Filter(cur, NotTemp)
        [] call.op = "addTask"     -> IF call.online THEN Filter(cur, NotTemp) ELSE cur
        [] call.op = "deleteHabit" -> Append(cur, call.saved)
        [] call.op = "deleteTask"  -> Append(cur, call.saved)
        [] call.op = "toggleTask"  -> Toggled(cur, call.id)
        [] call.op = "toggleHabit" ->
             IF call.saved
             THEN Append(cur, [habit_id |-> call.id.habit_id,
                               log_date |-> call.id.log_date])
             ELSE Filter(cur, OtherLog)

\* part_000:803, 844, 862, 898, 920, 939: the marker is deleted in the finally
\* block (toggleHabit: after the try/catch), whatever the outcome
MarkerDeleted_onSuccess(pending, marker, outcome) ==
  IF outcome = "done" THEN pending \ {marker} ELSE pending

MarkerDeleted(pending, marker, outcome) == pending \ {marker}

\* The write of call c has settled with `outcome`: the rest of the handler.
Settle(c, outcome) ==
  LET call == calls[c]
      new  == IF outcome = "done"
              THEN AfterSuccess(call, Collection(call.coll))
              ELSE AfterFailure(call, Collection(call.coll))
  IN  /\ EffectsFlushed
      /\ call.status = "awaiting"
      /\ SetCollection(call.coll, new)
      /\ trackerPending' = MarkerDeleted(trackerPending, call.marker, outcome)
      /\ calls' = [Touched(calls, call.coll, new, c) EXCEPT ![c].status = outcome]
      /\ UNCHANGED <<trackerOnline, loaded, loads, server, changes, now, nonTR>>

\* The response of the committed write arrives.
Resolve(c) == calls[c].committed /\ Settle(c, "done")

\* The write is rejected, or never reaches the server.
Fail(c) == ~calls[c].committed /\ Settle(c, "failed")

\* part_000:636-683  the three realtime callbacks
AfterChange(e) ==
  LET NotOld(r) == r.id # e.old.id
      NotOldLog(log) ==
        ~(log.habit_id = e.old.habit_id /\ log.log_date = e.old.log_date)
      ForUI(row) == Spread(row, [name |-> row.title])
      NewHabit(h) == IF h.id = e.new.id THEN e.new ELSE h
      NewTask(t) == IF t.id = e.new.id THEN ForUI(e.new) ELSE t
  IN  CASE e.table = "habits" /\ e.eventType = "INSERT" -> Append(habits, e.new)
        [] e.table = "habits" /\ e.eventType = "UPDATE" -> Map(habits, NewHabit)
        [] e.table = "habits" /\ e.eventType = "DELETE" -> Filter(habits, NotOld)
        [] e.table = "habit_logs" /\ e.eventType = "INSERT" -> Append(habitLogs, e.new)
        [] e.table = "habit_logs" /\ e.eventType = "DELETE" ->
             Filter(habitLogs, NotOldLog)
        [] e.table = "habit_logs" /\ e.eventType = "UPDATE" -> habitLogs
        [] e.table = "todos" /\ e.eventType = "INSERT" -> Append(tasks, ForUI(e.new))
        [] e.table = "todos" /\ e.eventType = "UPDATE" -> Map(tasks, NewTask)
        [] e.table = "todos" /\ e.eventType = "DELETE" -> Filter(tasks, NotOld)

CollectionOf(table) ==
  CASE table = "habits" -> "habits"
    [] table = "habit_logs" -> "habitLogs"
    [] table = "todos" -> "tasks"

\* The next change event reaches the callback of its table.
DeliverChange ==
  /\ EffectsFlushed
  /\ changes # <<>>
  /\ LET e == Head(changes)
         coll == CollectionOf(e.table)
         new == AfterChange(e)
     IN  /\ SetCollection(coll, new)
         /\ calls' = IF e.call = 0 THEN Touched(calls, coll, new, 0)
                     ELSE [Touched(calls, coll, new, 0) EXCEPT ![e.call].seen = TRUE]
  /\ changes' = Tail(changes)
  /\ UNCHANGED <<trackerPending, trackerOnline, loaded, loads, server, now, nonTR>>

\* No loadData call is waiting for its fetches.
LoadsSettled == \A l \in 1..Len(loads) : loads[l].status # "fetching"

\* The handlers and the change events on a page that has finished loading;
\* connectivity changes, if any, come before the user's first mutation.
TRNext ==
  \/ \E d \in TickSteps : Tick(d)
  \/ LoadData
  \/ \E l \in 1..Len(loads) : calls = <<>> /\ LoadFetched(l)
  \/ \E l \in 1..Len(loads) : calls = <<>> /\ LoadFailed(l)
  \/ \E status \in BOOLEAN : calls = <<>> /\ SetIsOnline(status)
  \/ \E name \in NewNames : LoadsSettled /\ AddHabit(name)
  \/ \E day \in Days : LoadsSettled /\ ToggleHabit(<<"h1">>, day)
  \/ LoadsSettled /\ DeleteHabit(<<"h1">>)
  \/ \E name \in NewNames : LoadsSettled /\ AddTask(name)
  \/ LoadsSettled /\ ToggleTask(<<"t1">>)
  \/ LoadsSettled /\ DeleteTask(<<"t1">>)
  \/ \E c \in 1..Len(calls) : Commit(c)
  \/ \E c \in 1..Len(calls) : Resolve(c)
  \/ \E c \in 1..Len(calls) : Fail(c)
  \/ DeliverChange

SpecTR == Init /\ [][TRNext]_vars

\* The load at the mount has shown the user's rows.
Mounted == loads # <<>> /\ loads[1].status = "installed"

\* The six mutation handlers and the settling of their writes, on the rows
\* loaded at the mount: the user acts on what the page shows.
MKNext ==
  \/ \E d \in TickSteps : Tick(d)
  \/ LoadData
  \/ \E l \in 1..Len(loads) : LoadFetched(l)
  \/ \E name \in NewNames : Mounted /\ AddHabit(name)
  \/ \E day \in Days : Mounted /\ ToggleHabit(<<"h1">>, day)
  \/ Mounted /\ DeleteHabit(<<"h1">>)
  \/ \E name \in NewNames : Mounted /\ AddTask(name)
  \/ Mounted /\ ToggleTask(<<"t1">>)
  \/ Mounted /\ DeleteTask(<<"t1">>)
  \/ \E c \in 1..Len(calls) : Commit(c)
  \/ \E c \in 1..Len(calls) : Resolve(c)
  \/ \E c \in 1..Len(calls) : Fail(c)

SpecMK == Init /\ [][MKNext]_vars

\* Tasks added while connectivity comes and goes, time passes, and the sweep
\* of the pending-update ledger runs.
SWNext ==
  \/ \E d \in TickSteps : Tick(d)
  \/ LoadData
  \/ \E l \in 1..Len(loads) : LoadFetched(l)
  \/ \E l \in 1..Len(loads) : LoadFailed(l)
  \/ \E status \in BOOLEAN : SetIsOnline(status)
  \/ \E name \in NewNames : AddTask(name)
  \/ \E c \in 1..Len(calls) : Commit(c)
  \/ \E c \in 1..Len(calls) : Resolve(c)
  \/ \E c \in 1..Len(calls) : Fail(c)
  \/ CleanOldUpdates

SpecSW == Init /\ [][SWNext]_vars

\* Another device of the user adds a habit: the server stores the row and
\* tells the subscribed clients (at most MaxEvents times).
RemoteInsert ==
  LET n == Len(server.habits) - Len(UserRows.habits) + 1
      row == [id |-> <<"r", n>>, name |-> <<"R">>, completed |-> FALSE,
              user_id |-> UserId]
  IN  /\ n <= MaxEvents
      /\ calls = <<>>
      /\ server' = [server EXCEPT !.habits = Append(@, [id |-> row.id,
                                                        name |-> row.name])]
      /\ changes' = Append(changes,
                           [table |-> "habits", eventType |-> "INSERT",
                            new |-> row, old |-> Undefined, call |-> 0])
      /\ UNCHANGED <<habits, tasks, habitLogs, trackerPending, trackerOnline,
                     loaded, loads, calls, now, nonTR>>

\* loadData and the cache: connectivity comes and goes, the cached entry ages,
\* and habits arrive from another device meanwhile.
LDNext ==
  \/ \E d \in CacheTickSteps : CacheTick(d)
  \/ LoadData
  \/ \E l \in 1..Len(loads) : LoadFetched(l)
  \/ \E l \in 1..Len(loads) : LoadFailed(l)
  \/ \E status \in BOOLEAN : SetIsOnline(status)
  \/ RemoteInsert
  \/ DeliverChange

SpecLD == Init /\ [][LDNext]_vars

OUNext ==
  \/ \E d \in TickSteps : Tick(d)
  \/ \E k \in LedgerKeys, u \in Updates : AddPendingUpdate(k, u)
  \/ \E k \in LedgerKeys : RemovePendingUpdate(k)
  \/ \E k \in LedgerKeys : Get(k)
  \/ CleanOldUpdates
  \/ \E c \in Classes : \E arr \in Bases(c) : Project(c, arr)

SpecOU == Init /\ [][OUNext]_vars

SpecDB == Init /\ [][DBNext]_vars

\* The registry's bookkeeping alone: subscribe, the returned closures, cleanup.
RMNext ==
  \/ \E t \in Targets, cb \in CB, est \in Establishments : Subscribe(t, cb, est)
  \/ \E i \in 1..Len(subs) : Unsubscribe(i)
  \/ Cleanup

SpecRM == Init /\ [][RMNext]_vars

\* Event delivery: observers of one key come and go (also from inside a
\* callback, between two turns of a running forEach) while events arrive.
FanTargets == { [table |-> <<"habits">>, filter |-> UserFilter] }

FanNext ==
  \/ \E t \in FanTargets, cb \in CB :
        Len(subs) < MaxFanSubscribes /\ Subscribe(t, cb, "joined")
  \/ \E i \in 1..Len(subs) : Unsubscribe(i)
  \/ Cleanup
  \/ \E c \in 1..Len(channels) : Emit(c)
  \/ Deliver
  \/ \E f \in 1..Len(fanouts), o \in {"return", "throw"} : Step(f, o)
  \/ \E f \in 1..Len(fanouts) : Finish(f)

SpecFan == Init /\ [][FanNext]_vars

\* Subscriptions with arbitrary tables and filters: names that contain '-',
\* and the filter values null, '' and 'all'.
KeyTargets ==
  { [table |-> <<"habits">>, filter |-> Null],
    [table |-> <<"habits">>, filter |-> <<>>],
    [table |-> <<"habits">>, filter |-> <<"all">>],
    [table |-> <<"habit", "-", "logs">>, filter |-> <<"x">>],
    [table |-> <<"habit">>, filter |-> <<"logs", "-", "x">>],
    [table |-> <<"todos">>, filter |-> UserFilter] }

KeyNext ==
  \/ \E t \in KeyTargets, cb \in CB :
        Len(subs) < MaxFanSubscribes /\ Subscribe(t, cb, "joined")
  \/ \E c \in 1..Len(channels) : Emit(c)
  \/ Deliver
  \/ \E f \in 1..Len(fanouts), o \in {"return", "throw"} : Step(f, o)
  \/ \E f \in 1..Len(fanouts) : Finish(f)

SpecKey == Init /\ [][KeyNext]_vars

\* ------------------------------------------- claims on the RealtimeManager
Keys == { TargetKey(t) : t \in Targets }

\* The callbacks registered for key k (the empty sequence when k has no Set).
Observers(cbs, ss, k) == IF k \in DOMAIN cbs THEN ss[cbs[k]] ELSE <<>>

\* The subscribe calls that returned an unsubscribe function.
Returned == { i \in 1..Len(subs) : subs[i].est # "threw" }

\* C1: a key never has two open upstream channels at once (one channel serves
\* all the subscribe calls of the key), and a channel is torn down by an
\* unsubscribe function only when every unsubscribe function returned by a
\* subscribe call that used this channel has been invoked.
C1_OneChannelUntilLastUnsubscribe ==
  /\ \A c, d \in 1..Len(channels) :
       (channels[c].key = channels[d].key /\ channels[c].closedBy = "none"
          /\ channels[d].closedBy = "none") => c = d
  /\ \A c \in 1..Len(channels) :
       channels[c].closedBy = "unsubscribe" =>
         \A i \in Returned : subs[i].chan = c => subs[i].invoked

\* C2: a key has a recorded upstream subscription if and only if its callback
\* Set exists and is not empty.
C2_SubscriptionIffObservers ==
  \A k \in Keys :
    (k \in DOMAIN subscriptions) <=> (Observers(callbacks, sets, k) # <<>>)

\* C5: invoking an unsubscribe function leaves every other callback of its key
\* registered, in the same order, keeps the key's upstream channel while another
\* callback remains, and changes neither the callback Set nor the subscription
\* nor the channel of any other key.
UnsubscribeFrame(i) ==
  LET k      == subs[i].key
      others == SelectSeq(Observers(callbacks, sets, k), LAMBDA x : x # subs[i].cb)
  IN  /\ Observers(callbacks', sets', k) = others
      /\ others # <<>> =>
           /\ k \in DOMAIN subscriptions <=> k \in DOMAIN subscriptions'
           /\ k \in DOMAIN subscriptions =>
                /\ subscriptions'[k] = subscriptions[k]
                /\ channels'[subscriptions[k]] = channels[subscriptions[k]]
      /\ \A j \in Keys \ {k} :
           /\ Observers(callbacks', sets', j) = Observers(callbacks, sets, j)
           /\ j \in DOMAIN subscriptions <=> j \in DOMAIN subscriptions'
           /\ j \in DOMAIN subscriptions =>
                /\ subscriptions'[j] = subscriptions[j]
                /\ channels'[subscriptions[j]] = channels[subscriptions[j]]

C5_UnsubscribeRemovesOnlyItsCallback ==
  [][\A i \in 1..Len(subs) : Unsubscribe(i) => UnsubscribeFrame(i)]_vars

\* An unsubscribe function has removed its callback while a sibling callback of
\* the same key and the observers of another key are registered.
C5_Witness ==
  \E i \in Returned :
    /\ subs[i].invoked
    /\ subs[i].cb \notin Range(Observers(callbacks, sets, subs[i].key))
    /\ Observers(callbacks, sets, subs[i].key) # <<>>
    /\ subs[i].key \in DOMAIN subscriptions
    /\ \E j \in Keys \ {subs[i].key} : j \in DOMAIN subscriptions

\* C6: every subscribe call whose channel establishment failed had the error
\* surfaced to its caller exactly once.
C6_FailureSurfacedOnce ==
  \A i \in 1..Len(subs) :
    subs[i].est \in {"asyncError", "threw"} => subs[i].surfaced = 1

\* C3: a callback is not invoked for a key once an unsubscribe function for
\* that key and callback has been invoked (and no subscribe call registered it
\* again since).
C3_NoEventAfterUnsubscribe ==
  [][\A f \in 1..Len(fanouts), o \in {"return", "throw"} :
       Step(f, o) =>
         <<fanouts[f].key, Head(Pending(fanouts[f]))>> \notin detached]_vars

\* C4: the event handler never ends by a callback's exception, and when its
\* forEach ends every callback that was registered when it began and stayed
\* registered has been invoked with the event.
C4_AllInvokedDespiteThrow ==
  [][/\ handlerResult' # "threw"
     /\ \A f \in 1..Len(fanouts) : Finish(f) => Complete(fanouts[f])]_vars

\* A callback threw and the next callback of the Set was invoked all the same.
C4_Witness ==
  \E f \in 1..Len(fanouts) :
    /\ Len(fanouts[f].invoked) = 2
    /\ fanouts[f].invoked[1] \in fanouts[f].threw
    /\ fanouts[f].invoked[2] # fanouts[f].invoked[1]

\* C7: the events a callback has been invoked with for a key are in the order
\* in which the transport emitted them.
C7_EventsInEmissionOrder ==
  \A kc \in DOMAIN received :
    \A i, j \in 1..Len(received[kc]) :
      i < j => received[kc][i] <= received[kc][j]

\* A callback has received the first event and then the second.
C7_Witness == \E kc \in DOMAIN received : received[kc] = <<1, 2>>

\* ----------------------------------------- claims on the OptimisticUpdates
KeysDistinct(entries) ==
  \A i, j \in 1..Len(entries) : entries[i].key = entries[j].key => i = j

HasKey(entries, k) == \E i \in 1..Len(entries) : entries[i].key = k

\* The ledger as it would be had key k held value v all along.
HadAllAlong(entries, k, v) ==
  [i \in 1..Len(entries) |->
     IF entries[i].key = k THEN [key |-> k, value |-> v] ELSE entries[i]]

\* C8: the ledger holds at most one entry per key; after addPendingUpdate(k, B)
\* getPendingUpdate(k) is B stamped with the time of this call, and when k held
\* an update A before, every projection is the one of a ledger that held B
\* under k all along, so nothing of A is left in it. The projections are
\* compared in the steps from a state that holds no call result: every ledger
\* content is reached in such a state, and addPendingUpdate reads no result.
C8_LaterUpdateReplacesEarlier ==
  [][/\ KeysDistinct(pendingUpdates')
     /\ \A k \in LedgerKeys, b \in Updates :
          (view' = NoView /\ now' = now /\ HasKey(pendingUpdates', k)
             /\ AddPendingUpdate(k, b)) =>
            /\ GetPendingUpdate(pendingUpdates', k) = Spread(b, [timestamp |-> now])
            /\ (HasKey(pendingUpdates, k) /\ view = NoView) =>
                 \A c \in Classes : \A arr \in Bases(c) :
                   ApplyTo(c, arr, pendingUpdates').result
                     = ApplyTo(c, arr,
                         HadAllAlong(pendingUpdates, k,
                                     Spread(b, [timestamp |-> now]))).result]_vars

\* The first entry was stamped after the second: its key was set again, with a
\* later update, after the other key had been inserted.
C8_Witness ==
  /\ Len(pendingUpdates) = 2
  /\ pendingUpdates[1].value.timestamp > pendingUpdates[2].value.timestamp
  /\ pendingUpdates[1].value.type = pendingUpdates[2].value.type

\* The projection as the specification words it: every pending update of the
\* class, in ledger order; add appends, update merges into the first record
\* of the identity, delete removes the first record of the identity.
SameIdentity(c, r, u) ==
  IF c = "habitLog"
  THEN r.habit_id = u.habitId /\ r.log_date = u.logDate
  ELSE r.id = u.id

FirstOf(c, coll, u) ==
  IF \E i \in 1..Len(coll) : SameIdentity(c, coll[i], u)
  THEN CHOOSE i \in 1..Len(coll) :
         /\ SameIdentity(c, coll[i], u)
         /\ \A j \in 1..(i - 1) : ~SameIdentity(c, coll[j], u)
  ELSE 0

Applied(c, coll, u, logsHaveUpdate) ==
  IF u.type # c THEN coll
  ELSE IF u.operation = "add" THEN coll \o <<u.data>>
  ELSE IF FirstOf(c, coll, u) = 0 THEN coll
  ELSE IF u.operation = "delete"
       THEN SubSeq(coll, 1, FirstOf(c, coll, u) - 1)
              \o SubSeq(coll, FirstOf(c, coll, u) + 1, Len(coll))
  ELSE IF c = "habitLog" /\ ~logsHaveUpdate THEN coll
  ELSE [coll EXCEPT ![FirstOf(c, coll, u)] = Spread(@, u.data)]

RECURSIVE Projected(_, _, _, _)
Projected(c, coll, entries, logsHaveUpdate) ==
  IF entries = <<>> THEN coll
  ELSE Projected(c, Applied(c, coll, Head(entries).value, logsHaveUpdate),
                 Tail(entries), logsHaveUpdate)

\* C9 as stated: for every class, habit logs too, the projection applies add,
\* update (merge into the first record of the identity) and delete.
C9_ProjectionAsStated ==
  view.op = "applyTo" =>
    view.value = Projected(view.cls, view.arg, pendingUpdates, TRUE)

\* C9 as amended: the same, but a pending update of class habit log with
\* operation update has no effect.
C9_ProjectionLogsAddDeleteOnly ==
  view.op = "applyTo" =>
    view.value = Projected(view.cls, view.arg, pendingUpdates, FALSE)

\* A projection over an update that merged and a delete that removed a record,
\* of a collection in which the identity occurs twice.
C9_Witness ==
  /\ view.op = "applyTo"
  /\ Len(view.arg) = 3
  /\ Len(pendingUpdates) = 2
  /\ pendingUpdates[1].value.type = view.cls
  /\ pendingUpdates[2].value.type = view.cls
  /\ pendingUpdates[1].value.operation = "update"
  /\ pendingUpdates[2].value.operation = "delete"
  /\ Len(view.value) = 2
  /\ view.value # SubSeq(view.arg, 1, 2)

\* C10: a projection leaves the array it was given as it was (length, order,
\* records) and leaves the ledger as it was.
C10_ProjectionMutatesNothing ==
  [][view'.op = "applyTo" =>
       \A c \in Classes : \A arr \in Bases(c) :
         Project(c, arr) => view'.after = arr /\ pendingUpdates' = pendingUpdates]_vars

\* A projection that returned something else than the array it was given.
C10_Witness ==
  /\ view.op = "applyTo"
  /\ view.value # view.arg
  /\ view.after = view.arg
  /\ \E i \in 1..Len(pendingUpdates) :
       pendingUpdates[i].value.type = view.cls /\ pendingUpdates[i].value.operation = "update"

\* C11: a second call of the same projection, on the collection as the first
\* call left it and under the same ledger, returns what the first returned.
C11_ProjectionIdempotent ==
  view.op = "applyTo" =>
    ApplyTo(view.cls, view.after, pendingUpdates).result = view.value

\* A projection that appended a record and changed or removed another.
C11_Witness ==
  /\ view.op = "applyTo"
  /\ Len(view.arg) = 2
  /\ Len(pendingUpdates) = 2
  /\ pendingUpdates[1].value.type = view.cls
  /\ pendingUpdates[2].value.type = view.cls
  /\ pendingUpdates[1].value.operation = "add"
  /\ pendingUpdates[2].value.operation # "add"
  /\ view.value[1] # view.arg[1]

\* The classes whose records carry an id of their own.
IdClasses == {"habit", "todo"}

\* The only pending update of class c is the add stored under k.
OnlyAddOf(entries, k, c) ==
  /\ HasKey(entries, k)
  /\ \A i \in 1..Len(entries) :
       entries[i].value.type = c =>
         entries[i].key = k /\ entries[i].value.operation = "add"
  /\ GetPendingUpdate(entries, k).type = c

\* The record the server returns for an added record: it has an id of its own.
Confirmed(data) == [data EXCEPT !.id = "42"]

Occurrences(coll, r) == Cardinality({i \in 1..Len(coll) : coll[i] = r})

\* C12: while the add of a temporary record is the only pending update of its
\* class the projection is the base followed by that record; once the pending
\* update is removed and the confirmed record is in the base, the projection
\* holds the confirmed record once and no record with the temporary id.
C12_AddThenConfirm ==
  [][\A k \in LedgerKeys : \A c \in IdClasses :
       (view' = NoView /\ OnlyAddOf(pendingUpdates, k, c)
          /\ RemovePendingUpdate(k)) =>
         \A arr \in Bases(c) :
           LET data == GetPendingUpdate(pendingUpdates, k).data
               then == ApplyTo(c, arr \o <<Confirmed(data)>>, pendingUpdates').result
           IN  /\ ApplyTo(c, arr, pendingUpdates).result = arr \o <<data>>
               /\ Occurrences(then, Confirmed(data)) = 1
               /\ \A i \in 1..Len(then) : then[i].id # data.id]_vars

\* The projection of a non-empty base while the add of a temporary record is
\* the only pending update of the class.
C12_Witness ==
  /\ view.op = "applyTo"
  /\ view.cls \in IdClasses
  /\ \E k \in LedgerKeys :
       /\ OnlyAddOf(pendingUpdates, k, view.cls)
       /\ view.value = view.arg \o <<GetPendingUpdate(pendingUpdates, k).data>>
  /\ Len(view.arg) = 2
  /\ Len(pendingUpdates) = 2

\* The age of an entry.
Age(e) == now - e.value.timestamp

\* C13: a sweep deletes the entries older than the max age and keeps the
\* others, in their order; what it deleted shows in no projection afterwards.
C13_SweepEvictsOld ==
  [][(view'.op = "cleanOldUpdates" /\ CleanOldUpdates) =>
       /\ \A i \in 1..Len(pendingUpdates) :
            (Age(pendingUpdates[i]) > MaxAgeMs)
              <=> ~HasKey(pendingUpdates', pendingUpdates[i].key)
       /\ \A j \in 1..Len(pendingUpdates') :
            \E i \in 1..Len(pendingUpdates) : pendingUpdates'[j] = pendingUpdates[i]
       /\ \A c \in Classes : \A arr \in Bases(c) :
            ApplyTo(c, arr, pendingUpdates').result
              = ApplyTo(c, arr,
                        SelectSeq(pendingUpdates,
                                  LAMBDA e : Age(e) <= MaxAgeMs)).result]_vars

\* A sweep deleted one entry and kept a younger one.
C13_Witness ==
  /\ view.op = "cleanOldUpdates"
  /\ view.deleted = 1
  /\ Len(pendingUpdates) = 1

\* ------------------------------------------------- claims on the DataCache
\* What get(k) has to return by the calls made so far.
Fresh(k) == k \in DOMAIN written /\ now - written[k].at <= ttl

Expected(k) == IF Fresh(k) THEN written[k].value ELSE Null

\* C14: get(k) returns the value of the latest set(k, .) when no clear()
\* followed that set and at most ttl has elapsed since it, and absent in every
\* other case, swept or not.
C14_GetReturnsLatestFreshSet ==
  view.op = "cacheGet" => view.value = Expected(view.key)

\* get returned the second value set under a key, the entry of the other key
\* being expired and still stored.
C14_Witness ==
  /\ view.op = "cacheGet"
  /\ view.value = <<"v2">>
  /\ written[view.key].at > 0
  /\ \E i \in 1..Len(cache) :
       /\ cache[i].key # view.key
       /\ now - cache[i].value.timestamp > ttl

\* C15: get(k) at ttl - 1 and at ttl after set(k, v) returns v and keeps the
\* entry; at ttl + 1 it returns absent and the entry is gone from the cache.
C15_TtlBoundary ==
  (view.op = "cacheGet" /\ view.key \in DOMAIN written) =>
    LET elapsed == now - written[view.key].at
    IN  /\ elapsed \in {ttl - 1, ttl} =>
             /\ view.value = written[view.key].value
             /\ HasKey(cache, view.key)
        /\ elapsed = ttl + 1 =>
             /\ view.value = Null
             /\ ~HasKey(cache, view.key)

\* get at ttl + 1 after a set made at a later time than 0 returned absent and
\* deleted the entry, the entry of the other key staying.
C15_Witness ==
  /\ view.op = "cacheGet"
  /\ view.key \in DOMAIN written
  /\ written[view.key].at > 0
  /\ now - written[view.key].at = ttl + 1
  /\ view.value = Null
  /\ Len(cache) = 1
  /\ cache[1].key # view.key

\* C16: cleanup() deletes the entries get would report absent and no other:
\* get(k) returns the same with and without the cleanup before it, no expired
\* entry stays, and the entries that stay are as they were, in their order.
C16_CleanupDeletesWhatGetHides ==
  [][DataCacheCleanup =>
       /\ \A k \in CacheKeys :
            /\ GetReturns(cache', k, now) = GetReturns(cache, k, now)
            /\ HasKey(cache', k) <=> (HasKey(cache, k) /\ GetReturns(cache, k, now) # Null)
       /\ cache' = SelectSeq(cache, LAMBDA e : HasKey(cache', e.key))]_vars

\* A cleanup deleted one entry and kept one that is exactly ttl old.
C16_Witness ==
  /\ view.op = "cacheCleanup"
  /\ view.deleted = 1
  /\ Len(cache) = 1
  /\ now - cache[1].value.timestamp = ttl

\* ----------------------------------------- claims on the ConnectionMonitor
\* The callbacks that were in the Set when the forEach began and were not
\* deleted from it meanwhile have all been invoked.
AllNotified(n) == (Range(n.start) \ n.removed) \subseteq Range(n.invoked)

\* C17: the status is stored before the callbacks run, so what a callback reads
\* from getStatus() is what it was invoked with; setOnlineStatus never ends by
\* a callback's exception, every callback that stays subscribed is invoked, and
\* at its end the stored status is the event's.
C17_StatusThenAllCallbacks ==
  [][/\ \A o \in {"return", "throw"} :
          NotifyStep(o) =>
            \A cb \in DOMAIN notified' : \A i \in 1..Len(notified'[cb]) :
              notified'[cb][i].read = notified'[cb][i].arg
     /\ notifyResult' # "threw"
     /\ NotifyEnd => AllNotified(notifying) /\ isOnline = notifying.status]_vars

\* An offline event: the first callback threw, the second was invoked all the
\* same, and the status stored is offline.
C17_Witness ==
  /\ ~notifying.active
  /\ notifyResult = "returned"
  /\ ~notifying.status
  /\ ~isOnline
  /\ Len(notifying.invoked) = 2
  /\ notifying.invoked[1] \in notifying.threw
  /\ notifying.invoked[2] # notifying.invoked[1]

\* C18: a detach function deletes the callback of its subscribe call from the
\* Set and nothing else; a callback that is not in the Set is not invoked, and
\* the callbacks that stay are all invoked by every later notification.
C18_DetachRemovesOnlyItsCallback ==
  [][/\ \A i \in 1..Len(detachers) :
          Detach(i) =>
            monitorCallbacks'
              = SelectSeq(monitorCallbacks, LAMBDA c : c # detachers[i].cb)
     /\ \A o \in {"return", "throw"} :
          NotifyStep(o) => notified'[Head(ToNotify(notifying))] # <<>>
                           /\ Head(ToNotify(notifying)) \in Range(monitorCallbacks)
                           /\ \A cb \in DOMAIN notified :
                                cb \notin Range(monitorCallbacks)
                                  => notified'[cb] = notified[cb]
     /\ NotifyEnd => AllNotified(notifying)]_vars

\* Two notifications have ended; a callback detached after the first received
\* only that one, the other callback received both.
C18_Witness ==
  /\ ~notifying.active
  /\ statusEvents = 2
  /\ \E i \in 1..Len(detachers) :
       /\ detachers[i].invoked
       /\ detachers[i].cb \in DOMAIN notified
       /\ Len(notified[detachers[i].cb]) = 1
       /\ \E cb \in DOMAIN notified :
            cb # detachers[i].cb /\ Len(notified[cb]) = 2

\* --------------------------------------------------- claims on the Tracker
\* C19: when the remote write of a handler call fails, the handler ends with
\* its marker removed and its collection as it was just before the call (same
\* records, order and fields), if nothing else changed the collection meanwhile.
C19_FailureRestoresCollection ==
  [][\A c \in 1..Len(calls) :
       (Fail(c) /\ calls[c].alone) =>
         /\ calls[c].marker \notin trackerPending'
         /\ Collection(calls[c].coll)' = calls[c].before]_vars

\* The records of the collection that stand for the write of an add call: the
\* temporary record and the server's row.
RecordsOf(call) ==
  {i \in 1..Len(Collection(call.coll)) :
     \/ Collection(call.coll)[i].id = call.id
     \/ call.row # Undefined /\ Collection(call.coll)[i].id = call.row.id}

\* No other add call made the same temporary id.
OwnTempId(c) == \A d \in 1..Len(calls) : calls[d].id = calls[c].id => d = c

\* C20: once the INSERT event of a user's own add has been handled, before or
\* after the write's response, the pending marker of the add is gone and the
\* collection holds one record for that write.
C20_OwnInsertEventConfirms ==
  \A c \in 1..Len(calls) :
    (calls[c].op \in {"addHabit", "addTask"} /\ calls[c].seen /\ OwnTempId(c)) =>
      /\ calls[c].marker \notin trackerPending
      /\ Cardinality(RecordsOf(calls[c])) = 1

\* The identity of a record: its id, or habit id plus log date for a log.
Identity(coll, r) ==
  IF coll = "habitLogs" THEN <<r.habit_id, r.log_date>> ELSE r.id

\* A temporary id, made by the client: `temp-${Date.now()}`, `temp-task-...`.
IsTemp(coll, r) == coll # "habitLogs" /\ r.id[1] \in {"temp-", "temp-task-"}

\* C24: in every reachable state no two records of the habit, habit-log or
\* todo collection that carry a server identity (id, or habit id plus log date
\* for logs) have the same identity.
C24_NoDuplicateRecords ==
  \A coll \in {"habits", "tasks", "habitLogs"} :
    \A i, j \in 1..Len(Collection(coll)) :
      (/\ ~IsTemp(coll, Collection(coll)[i])
       /\ Identity(coll, Collection(coll)[i]) = Identity(coll, Collection(coll)[j]))
        => i = j

\* ------------------------------- further claims on the RealtimeManager
\* The unsubscribe function of the i-th subscribe call has been invoked before,
\* or cleanup() has run since the call.
Spent(i) ==
  \/ subs[i].invoked
  \/ subs[i].chan # 0 /\ channels[subs[i].chan].closedBy = "cleanup"

\* C28: invoking an unsubscribe function a second time, or after cleanup(),
\* changes nothing: no callback is removed, no subscription is torn down and
\* no upstream channel's unsubscribe is called.
C28_SpentUnsubscribeChangesNothing ==
  [][\A i \in 1..Len(subs) :
       (Spent(i) /\ Unsubscribe(i)) =>
         UNCHANGED <<callbacks, sets, subscriptions, channels>>]_vars

\* C27: a callback is invoked only with events of an upstream channel that a
\* subscribe call for this callback used: an event still in flight from a
\* channel torn down before the key was subscribed again does not reach the
\* new observers.
C27_NoEventOfTornDownChannel ==
  \A f \in 1..Len(fanouts) :
    \A cb \in Range(fanouts[f].invoked) :
      \E i \in 1..Len(subs) :
        /\ subs[i].key = fanouts[f].key
        /\ subs[i].cb = cb
        /\ subs[i].chan = fanouts[f].chan

\* realtime.js:30  ...(filter && { filter }): the filter the channel is given
\* (null and '' both give a channel without a filter).
ChannelFilter(filter) == IF Falsy(filter) THEN Null ELSE filter

\* C26: an observer is invoked only with events of an upstream channel that
\* listens to the table and with the filter of one of the observer's own
\* subscribe calls.
C26_OnlyEventsOfOwnTableAndFilter ==
  \A f \in 1..Len(fanouts) :
    \A cb \in Range(fanouts[f].invoked) :
      \E i \in 1..Len(subs) :
        /\ subs[i].cb = cb
        /\ subs[i].target.table = channels[fanouts[f].chan].target.table
        /\ ChannelFilter(subs[i].target.filter)
             = ChannelFilter(channels[fanouts[f].chan].target.filter)

\* --------------------------------------- claims on the database functions
\* C29: the rows stored for the user never exceed 100 habits and 200 todos,
\* and a call that found the count at the limit threw and inserted nothing.
C29_RowLimitKept ==
  /\ \A t \in {"habits", "todos"} : stored[t] <= RowLimit(t)
  /\ \A a \in 1..Len(adds) :
       (adds[a].pc # "counting" /\ adds[a].count >= RowLimit(adds[a].table))
         => adds[a].pc = "threw"

\* ------------------------------------------ claims on loadData and the cache
\* The three collections are those of data.
Shows(data) ==
  /\ habits = data.habits
  /\ tasks = data.tasks
  /\ habitLogs = data.habitLogs

\* A step that leaves the cache as a reader sees it: nothing changes, or an
\* expired entry of the key goes.
CacheKept ==
  \/ cache' = cache
  \/ ~HasCached(cache, now) /\ cache' = LedgerDelete(cache, CacheKey)

\* C25: loadData installs the cached snapshot and fetches nothing if and only
\* if the latest data stored under the (user, month) key is no older than the
\* ttl and the status is online, and otherwise sends a fetch and installs
\* nothing yet; the cache is written only when a fetch has succeeded, with the
\* rows fetched, and a fetch that fails leaves the cache as it is.
C25_CacheOnlyWhenFreshAndOnline ==
  [][/\ LoadData =>
          IF Fresh(CacheKey) /\ trackerOnline
          THEN /\ Shows(written[CacheKey].value)'
               /\ loads' = loads
               /\ cache' = cache
          ELSE /\ Len(loads') = Len(loads) + 1
               /\ loads'[Len(loads')].status = "fetching"
               /\ UNCHANGED <<habits, tasks, habitLogs>>
               /\ CacheKept
     /\ \A l \in 1..Len(loads) :
          /\ LoadFetched(l) =>
               /\ HasCached(cache', now)
               /\ GetReturns(cache', CacheKey, now) = server
               /\ Shows(server)'
          /\ LoadFailed(l) => cache' = cache
     /\ (\A l \in 1..Len(loads) : ~LoadFetched(l)) => CacheKept]_vars

\* After a fetch that failed had emptied the collections, loadData ran online
\* within the ttl and installed the cached rows without another fetch, while
\* the server already had a row more.
C25_Witness ==
  /\ Len(loads) = 2
  /\ loads[1].status = "installed"
  /\ loads[2].status = "failed"
  /\ loaded /\ trackerOnline
  /\ HasCached(cache, now)
  /\ Shows(GetReturns(cache, CacheKey, now))
  /\ habits # <<>>
  /\ server.habits # habits

\* C30: a run of loadData does not take away a habit that a change event has
\* put into the local collection (the server still has the row): it does not
\* install a cached snapshot older than the change.
C30_LoadKeepsAppliedChange ==
  [][LoadData =>
       \A i \in 1..Len(habits) :
         (\E j \in 1..Len(server.habits) : server.habits[j].id = habits[i].id)
           => \E j \in 1..Len(habits') : habits'[j].id = habits[i].id]_vars

\* The collection of call c holds the record that the call added optimistically.
ShowsTemp(c) ==
  \E i \in 1..Len(Collection(calls[c].coll)) :
    Collection(calls[c].coll)[i].id = calls[c].id

\* C21: a run of loadData that installs collections, from the cache or from a
\* fetch, keeps the optimistic record of every add whose write is in flight.
C21_LoadKeepsOptimisticRecord ==
  [][(LoadData \/ \E l \in 1..Len(loads) : LoadFetched(l)) =>
       \A c \in 1..Len(calls) :
         (/\ calls[c].op \in {"addHabit", "addTask"}
          /\ calls[c].status = "awaiting"
          /\ ShowsTemp(c))
           => ShowsTemp(c)']_vars

\* C23: when the sweep runs, no record of an add whose write failed more than
\* the max age (30 s) ago is left in the local collection (adds that made the
\* same temporary id as another call are left aside).
C23_SweepRemovesFailedWrites ==
  [][CleanOldUpdates =>
       \A c \in 1..Len(calls) :
         (/\ calls[c].op \in {"addHabit", "addTask"}
          /\ calls[c].status = "failed"
          /\ OwnTempId(c)
          /\ now - calls[c].id[2] > MaxAgeMs)
           => ~ShowsTemp(c)']_vars

\* --------------------------------------------- claims on the pending markers
\* The calls whose remote write is in flight.
InFlight(cs) == {c \in 1..Len(cs) : cs[c].status = "awaiting"}

\* C22: a handler call has put its marker into the pending Set when it issues
\* its remote write; when the write settles, by success or by failure, the
\* marker is no longer in the Set; and whenever no write is in flight the Set
\* is empty.
C22_MarkerWhileInFlight ==
  [][/\ Len(calls') > Len(calls) =>
          /\ calls'[Len(calls')].status = "awaiting"
          /\ calls'[Len(calls')].marker \in trackerPending'
     /\ \A c \in 1..Len(calls) :
          (Resolve(c) \/ Fail(c)) =>
             /\ calls[c].marker \notin trackerPending'
     /\ InFlight(calls') = {} => trackerPending' = {}]_vars

\* One write has failed and its marker is gone, while another handler's write
\* is in flight with its marker in the Set.
C22_Witness ==
  \E c, d \in 1..Len(calls) :
    /\ calls[c].status = "failed"
    /\ calls[c].marker \notin trackerPending
    /\ calls[d].status = "awaiting"
    /\ calls[d].op # calls[c].op
    /\ calls[d].marker \in trackerPending

====
